---- MODULE Spec2Model ----
(***************************************************************************)
(* betkarma odds viewer: the browser-side controllers of the repository.   *)
(*                                                                         *)
(*   src/static/app.js      the retrying controller (fetchJSON with a      *)
(*                          backoff table, URL and localStorage sync)      *)
(*   src/unnamed/part_000   the date-chip controller (server-side day      *)
(*                          filter, plain fetch)                           *)
(*   src/unnamed/part_001   the caching controller (one fetch per load,    *)
(*                          day filter on the cached games)                *)
(*                                                                         *)
(* and the moneyline price cell as each of the three renders it.           *)
(*                                                                         *)
(* The browser runs every handler to its next await as one step of the     *)
(* event loop; a promise's continuation runs in the same step as the       *)
(* completion that settles it.                                             *)
(***************************************************************************)
EXTENDS Integers, Sequences, FiniteSets, TLC

\* JavaScript null / undefined (a missing URL parameter, a missing storage key)
Null == "<null>"

\* JavaScript truthiness of a string-or-null value
Truthy(v) == v # Null /\ v # ""

Range(s) == {s[i] : i \in 1..Len(s)}

(***************************************************************************)
(* State                                                                   *)
(***************************************************************************)
\* One fetchJSON call of app.js, observed in isolation
VARIABLES
    fj,        \* the call: its state, its attempt argument
    fjUrl,     \* its url
    fjHist,    \* how each of its underlying fetch attempts ended, in order
    fjBody,    \* the body the successful attempt carried
    fjVal,     \* what the call resolved with
    fjCalls    \* how many times the underlying fetch was called

fetchVars == <<fj, fjUrl, fjHist, fjBody, fjVal, fjCalls>>

\* The retrying controller (app.js)
VARIABLES
    sports, books,                 \* AppState.sports, AppState.books (the keys)
    selectedSport, selectedBook,   \* AppState.selectedSport / selectedBook
    loading,                       \* AppState.loading
    content,                       \* #content
    asOf,                          \* #asOf
    disabled,                      \* .disabled of refreshBtn, sportSelect, bookmakerSelect
    sportValue, bookValue,         \* sportSelect.value, bookmakerSelect.value
    urlSport, urlBook,             \* ?sport= and ?bookmaker= of window.location
    lsSport, lsBook,               \* localStorage bk.selectedSport / bk.selectedBook
    lsOK,                          \* FALSE: localStorage access throws
    fSports, fBooks,               \* the fetchJSON calls of loadSports / loadBookmakers
    loads,                         \* every loadOdds call so far, in the order issued
    initPc                         \* where init() stands

appVars == <<sports, books, selectedSport, selectedBook, loading, content, asOf,
             disabled, sportValue, bookValue, urlSport, urlBook, lsSport, lsBook,
             lsOK, fSports, fBooks, loads, initPc>>

\* The date-chip controller (part_000)
VARIABLES
    cSportOptions, cBookOptions,   \* the options of sportSelect / bookmakerSelect
    cSportValue, cBookValue,       \* sportSelect.value / bookmakerSelect.value
    currentDayOffset,
    cards,                         \* #cards
    asOfText,                      \* #asOfText
    loadBtnBound,                  \* loadBtn has its click listener
    cLoads,                        \* every loadOdds call so far, in the order issued
    cPc                            \* where init() stands

chipVars == <<cSportOptions, cBookOptions, cSportValue, cBookValue,
              currentDayOffset, cards, asOfText, loadBtnBound, cLoads, cPc>>

\* The caching controller (part_001)
VARIABLES
    selectedDateKey,     \* the local date key of the active day pill
    lastLoadedGames,     \* the results of the latest odds response
    gamesEl,             \* #games: the games rendered, in order
    statusBox, metaBox,  \* #status, #meta
    pSportOptions,       \* the option values of sportSelect
    pSportValue,         \* sportSelect.value
    pBookValue,          \* bookmakerSelect.value
    customBookInput,     \* customBookInput.value
    pLoads,              \* every odds request so far, in the order issued
    pSportsPc            \* where initSports() stands

cacheVars == <<selectedDateKey, lastLoadedGames, gamesEl, statusBox, metaBox,
               pSportOptions, pSportValue, pBookValue, customBookInput, pLoads,
               pSportsPc>>

\* One moneyline row, rendered
VARIABLES
    livePrice,   \* row.live_price
    liveCell,    \* the text of the row's Live cell
    renderedBy   \* the renderer that wrote it

cellVars == <<livePrice, liveCell, renderedBy>>

\* What outlives one page session of the retrying controller, and what is
\* observed of it
VARIABLES
    budget,    \* user-triggered odds loads the run still has room for
    reloads,   \* page reloads so far
    before,    \* what the session ended by the last reload had reached
    keyLog     \* the last keydown event dispatched, and what it did

runVars == <<budget, reloads, before, keyLog>>

vars == <<fetchVars, appVars, chipVars, cacheVars, cellVars, runVars>>

otherThanFetch == <<appVars, chipVars, cacheVars, cellVars, runVars>>
otherThanApp == <<fetchVars, chipVars, cacheVars, cellVars, runVars>>
otherThanChips == <<fetchVars, appVars, cacheVars, cellVars, runVars>>
otherThanCache == <<fetchVars, appVars, chipVars, cellVars, runVars>>
otherThanCells == <<fetchVars, appVars, chipVars, cacheVars, runVars>>

(***************************************************************************)
(* fetchJSON of the retrying controller                                    *)
(***************************************************************************)
BACKOFF_MS == <<0, 500, 1200>>

\* How one underlying fetch attempt can end: a parsed 2xx body, a transport
\* error, a non-2xx status (client or server), a 2xx body that is not JSON.
Outcomes == {"ok", "net", "http4xx", "http5xx", "parse"}
Failures == Outcomes \ {"ok"}

\* fetchJSON(url, opts, attempt = 0): the first underlying fetch is issued
FetchStart == [st |-> "fetching", attempt |-> 0, calls |-> 1]
FetchIdle == [st |-> "idle", attempt |-> 0, calls |-> 0]

\* The test with the table's length taken for its last index
MoreAttemptsOffByOne(attempt) == attempt < Len(BACKOFF_MS)

\* The catch block's test for another attempt
MoreAttempts(attempt) == attempt < Len(BACKOFF_MS) - 1

\* A settled call: its activation is gone, only the promise's state is left
FetchSettled(st) == [st |-> st, attempt |-> 0, calls |-> 0]

\* One attempt of fetchJSON ends with `outcome`. `return res.json()` leaves the
\* try block before the body is parsed, so a body that fails to parse rejects
\* the call without passing through the catch block.
FetchJSON(rec, outcome) ==
    CASE outcome = "ok" -> FetchSettled("resolved")
      [] outcome = "parse" -> FetchSettled("rejected")
      [] OTHER -> IF MoreAttempts(rec.attempt)
                  THEN [rec EXCEPT !.st = "sleeping"]
                  ELSE FetchSettled("rejected")

\* sleep(BACKOFF_MS[attempt + 1]) is over: fetchJSON(url, opts, attempt + 1)
FetchRetry(rec) ==
    [st |-> "fetching", attempt |-> rec.attempt + 1, calls |-> rec.calls + 1]

\* The catch block calling fetchJSON again without returning its promise
FetchValueNoReturn(rec, body) == IF rec.attempt = 0 THEN body ELSE 0

\* What the call resolves with: the parsed body of the attempt that succeeded
FetchValue(rec, body) == body

MaxBody == 2
Bodies == 1..MaxBody
Urls == {"/sports", "/bookmakers", "/odds"}

FetchInit ==
    /\ fj = FetchIdle
    /\ fjUrl = Null
    /\ fjHist = <<>>
    /\ fjBody = 0
    /\ fjVal = 0
    /\ fjCalls = 0

FjCall(url) ==
    /\ fj.st = "idle"
    /\ fj' = FetchStart
    /\ fjUrl' = url
    /\ fjCalls' = fjCalls + 1
    /\ UNCHANGED <<fjHist, fjBody, fjVal>>
    /\ UNCHANGED otherThanFetch

FjAttempt(outcome, body) ==
    /\ fj.st = "fetching"
    /\ fj' = FetchJSON(fj, outcome)
    /\ fjHist' = Append(fjHist, outcome)
    /\ fjBody' = IF outcome = "ok" THEN body ELSE fjBody
    /\ fjVal' = IF fj'.st = "resolved" THEN FetchValue(fj, body) ELSE fjVal
    /\ UNCHANGED <<fjUrl, fjCalls>>
    /\ UNCHANGED otherThanFetch

FjWake ==
    /\ fj.st = "sleeping"
    /\ fj' = FetchRetry(fj)
    /\ fjCalls' = fjCalls + 1
    /\ UNCHANGED <<fjUrl, fjHist, fjBody, fjVal>>
    /\ UNCHANGED otherThanFetch

(***************************************************************************)
(* The retrying controller (src/static/app.js)                             *)
(***************************************************************************)
DEFAULT_SPORT == "baseball_mlb"
DEFAULT_BOOK == "betonlineag"

\* Keys the backend can offer in GET /sports and GET /bookmakers
SportKeys == {"baseball_mlb", "basketball_wnba"}
BookKeys == {"betonlineag", "draftkings"}

MaxList == 2
\* A list of at most MaxList distinct keys
ListsOver(keys) ==
    {l \in UNION {[1..n -> keys] : n \in 0..MaxList} :
        \A i, j \in 1..Len(l) : i # j => l[i] # l[j]}

\* Games in an odds payload
MaxGames == 1
\* User-triggered odds loads in one page session
MaxUserLoads == 1

\* What #content holds: which function wrote it, the style class and the
\* message of its markup, and the request whose games its cards show
Blank == [kind |-> "blank", cls |-> "", msg |-> "", sport |-> Null, book |-> Null]
\* skeletonCards(4)
Skeleton == [kind |-> "skeleton", cls |-> "game-card skeleton", msg |-> "",
             sport |-> Null, book |-> Null]
\* showError: <div class="error">Error loading odds: ...</div>
ErrorBox == [kind |-> "error", cls |-> "error", msg |-> "Error loading odds: ...",
             sport |-> Null, book |-> Null]
\* showEmpty: <div class="error">No games found for your selection.</div>
EmptyBox == [kind |-> "empty", cls |-> "error",
             msg |-> "No games found for your selection.",
             sport |-> Null, book |-> Null]
\* the game cards of the payload answering (sport, book): clones of gameCardTpl
Cards(sport, book) == [kind |-> "games", cls |-> "game-card", msg |-> "",
                       sport |-> sport, book |-> book]

AsOfBlank == [text |-> "", book |-> Null]
AsOfLoading == [text |-> "Loading...", book |-> Null]
AsOfLine(book) == [text |-> "As of", book |-> book]

AllDisabled(b) == [refreshBtn |-> b, sportSelect |-> b, bookmakerSelect |-> b]

loadPrefs ==
    IF lsOK
    THEN [sport |-> IF Truthy(lsSport) THEN lsSport ELSE Null,
          book |-> IF Truthy(lsBook) THEN lsBook ELSE Null]
    ELSE [sport |-> Null, book |-> Null]

readURLParams == [sport |-> urlSport, book |-> urlBook]

\* The stored preference looked at before the URL parameter
PickSportStorageFirst(list, qs, ls) ==
    IF Truthy(ls) /\ (\E i \in 1..Len(list) : list[i] = ls) THEN ls
    ELSE IF Truthy(qs) /\ (\E i \in 1..Len(list) : list[i] = qs) THEN qs
    ELSE IF Len(list) > 0 /\ Truthy(list[1]) THEN list[1]
    ELSE DEFAULT_SPORT

\* pick from URL param > localStorage > first > default (loadSports)
PickSport(list, qs, ls) ==
    IF Truthy(qs) /\ (\E i \in 1..Len(list) : list[i] = qs) THEN qs
    ELSE IF Truthy(ls) /\ (\E i \in 1..Len(list) : list[i] = ls) THEN ls
    ELSE IF Len(list) > 0 /\ Truthy(list[1]) THEN list[1]
    ELSE DEFAULT_SPORT

\* The URL parameter taken without looking it up in the list
PickBookAnyParam(list, qs, ls) ==
    IF Truthy(qs) THEN qs
    ELSE IF Truthy(ls) /\ (\E i \in 1..Len(list) : list[i] = ls) THEN ls
    ELSE IF Len(list) > 0 /\ Truthy(list[1]) THEN list[1]
    ELSE DEFAULT_BOOK

\* (loadBookmakers)
PickBook(list, qs, ls) ==
    IF Truthy(qs) /\ (\E i \in 1..Len(list) : list[i] = qs) THEN qs
    ELSE IF Truthy(ls) /\ (\E i \in 1..Len(list) : list[i] = ls) THEN ls
    ELSE IF Len(list) > 0 /\ Truthy(list[1]) THEN list[1]
    ELSE DEFAULT_BOOK

\* select.value = v keeps v only when an option carries it
SelectValue(list, v) == IF v \in Range(list) THEN v ELSE ""

\* savePrefs(): both keys are written, a throwing store is ignored
SavePrefs(selS, selB) ==
    IF lsOK
    THEN /\ lsSport' = (IF Truthy(selS) THEN selS ELSE "")
         /\ lsBook' = (IF Truthy(selB) THEN selB ELSE "")
    ELSE UNCHANGED <<lsSport, lsBook>>

\* updateURLParams() without its second searchParams.set
UpdateURLParamsSportOnly(selS, selB) ==
    /\ urlSport' = (IF Truthy(selS) THEN selS ELSE urlSport)
    /\ urlBook' = urlBook

\* updateURLParams(): each parameter is set when its selection is truthy
UpdateURLParams(selS, selB) ==
    /\ urlSport' = (IF Truthy(selS) THEN selS ELSE urlSport)
    /\ urlBook' = (IF Truthy(selB) THEN selB ELSE urlBook)

\* showSkeleton()
ShowSkeleton ==
    /\ loading' = TRUE
    /\ content' = Skeleton
    /\ asOf' = AsOfLoading
    /\ disabled' = AllDisabled(TRUE)

\* clearSkeleton()
ClearSkeleton ==
    /\ loading' = FALSE
    /\ disabled' = AllDisabled(FALSE)

\* loadOdds({refresh: true}) up to its await: the request is built from the
\* selection, the skeleton is shown, the first fetch is issued
LoadOdds(by, selS, selB) ==
    /\ ShowSkeleton
    /\ loads' = Append(loads,
                    [by |-> by,
                     sport |-> IF Truthy(selS) THEN selS ELSE DEFAULT_SPORT,
                     book |-> IF Truthy(selB) THEN selB ELSE DEFAULT_BOOK,
                     refresh |-> TRUE,
                     f |-> FetchStart])

InFlight(l) == l.f.st \in {"fetching", "sleeping"}
UserLoads == Cardinality({i \in 1..Len(loads) : loads[i].by # "init"})

\* init() after Promise.all resolved: updateURLParams(); await loadOdds(...)
InitAfterMeta(selS, selB) ==
    /\ UpdateURLParams(selS, selB)
    /\ LoadOdds("init", selS, selB)
    /\ initPc' = "odds"

\* init()'s catch block
InitCatch ==
    /\ content' = ErrorBox
    /\ initPc' = "failed"

\* The state when the script has run to the first await of init(): both list
\* fetches are issued, every listener is registered. The script disables no
\* control before its first showSkeleton(), so the controls are as the
\* document leaves them, enabled.
AppInit(qsS, qsB, lsS, lsB, ok) ==
    /\ sports = <<>> /\ books = <<>>
    /\ selectedSport = Null /\ selectedBook = Null
    /\ loading = FALSE
    /\ content = Blank
    /\ asOf = AsOfBlank
    /\ disabled = AllDisabled(FALSE)
    /\ sportValue = "" /\ bookValue = ""
    /\ urlSport = qsS /\ urlBook = qsB
    /\ lsSport = lsS /\ lsBook = lsB /\ lsOK = ok
    /\ fSports = FetchStart /\ fBooks = FetchStart
    /\ loads = <<>>
    /\ initPc = "meta"

\* loadSports(): one attempt of its fetchJSON ends; on success the rest of
\* loadSports runs, and init() goes on when loadBookmakers is through too
LoadSportsStep(outcome, list) ==
    /\ fSports.st = "fetching"
    /\ LET f2 == FetchJSON(fSports, outcome)
           pick == PickSport(list, readURLParams.sport, loadPrefs.sport)
       IN /\ fSports' = f2
          /\ IF f2.st = "resolved"
             THEN /\ sports' = list
                  /\ selectedSport' = pick
                  /\ sportValue' = SelectValue(list, pick)
                  /\ IF initPc = "meta" /\ fBooks.st = "resolved"
                     THEN InitAfterMeta(pick, selectedBook)
                     ELSE UNCHANGED <<urlSport, urlBook, loads, loading, content,
                                      asOf, disabled, initPc>>
             ELSE /\ UNCHANGED <<sports, selectedSport, sportValue, urlSport,
                                 urlBook, loads, loading, asOf, disabled>>
                  /\ IF f2.st = "rejected" /\ initPc = "meta"
                     THEN InitCatch
                     ELSE UNCHANGED <<content, initPc>>
    /\ UNCHANGED <<books, selectedBook, bookValue, lsSport, lsBook, lsOK, fBooks>>
    /\ UNCHANGED otherThanApp

LoadSportsWake ==
    /\ fSports.st = "sleeping"
    /\ fSports' = FetchRetry(fSports)
    /\ UNCHANGED <<sports, books, selectedSport, selectedBook, loading, content,
                   asOf, disabled, sportValue, bookValue, urlSport, urlBook,
                   lsSport, lsBook, lsOK, fBooks, loads, initPc>>
    /\ UNCHANGED otherThanApp

LoadBookmakersStep(outcome, list) ==
    /\ fBooks.st = "fetching"
    /\ LET f2 == FetchJSON(fBooks, outcome)
           pick == PickBook(list, readURLParams.book, loadPrefs.book)
       IN /\ fBooks' = f2
          /\ IF f2.st = "resolved"
             THEN /\ books' = list
                  /\ selectedBook' = pick
                  /\ bookValue' = SelectValue(list, pick)
                  /\ IF initPc = "meta" /\ fSports.st = "resolved"
                     THEN InitAfterMeta(selectedSport, pick)
                     ELSE UNCHANGED <<urlSport, urlBook, loads, loading, content,
                                      asOf, disabled, initPc>>
             ELSE /\ UNCHANGED <<books, selectedBook, bookValue, urlSport,
                                 urlBook, loads, loading, asOf, disabled>>
                  /\ IF f2.st = "rejected" /\ initPc = "meta"
                     THEN InitCatch
                     ELSE UNCHANGED <<content, initPc>>
    /\ UNCHANGED <<sports, selectedSport, sportValue, lsSport, lsBook, lsOK, fSports>>
    /\ UNCHANGED otherThanApp

LoadBookmakersWake ==
    /\ fBooks.st = "sleeping"
    /\ fBooks' = FetchRetry(fBooks)
    /\ UNCHANGED <<sports, books, selectedSport, selectedBook, loading, content,
                   asOf, disabled, sportValue, bookValue, urlSport, urlBook,
                   lsSport, lsBook, lsOK, fSports, loads, initPc>>
    /\ UNCHANGED otherThanApp

\* renderGames(payload)
RenderGames(l, n) ==
    /\ content' = (IF n = 0 THEN EmptyBox ELSE Cards(l.sport, l.book))
    /\ asOf' = AsOfLine(l.book)

\* showError(err)
ShowError ==
    /\ content' = ErrorBox
    /\ UNCHANGED asOf

\* loadOdds() from its await on: one attempt of its fetchJSON ends with
\* `outcome`; n is the number of games of the payload
LoadOddsStep(i, outcome, n) ==
    /\ i \in 1..Len(loads)
    /\ loads[i].f.st = "fetching"
    /\ LET f2 == FetchJSON(loads[i].f, outcome)
       IN /\ loads' = [loads EXCEPT ![i].f = f2]
          /\ IF f2.st = "resolved"
             THEN RenderGames(loads[i], n) /\ ClearSkeleton
             ELSE IF f2.st = "rejected"
             THEN ShowError /\ ClearSkeleton
             ELSE UNCHANGED <<content, asOf, loading, disabled>>
          /\ initPc' = (IF f2.st \in {"resolved", "rejected"} /\ loads[i].by = "init"
                        THEN "done" ELSE initPc)
    /\ UNCHANGED <<sports, books, selectedSport, selectedBook, sportValue,
                   bookValue, urlSport, urlBook, lsSport, lsBook, lsOK, fSports,
                   fBooks>>
    /\ UNCHANGED otherThanApp

LoadOddsWake(i) ==
    /\ i \in 1..Len(loads)
    /\ loads[i].f.st = "sleeping"
    /\ loads' = [loads EXCEPT ![i].f = FetchRetry(loads[i].f)]
    /\ UNCHANGED <<sports, books, selectedSport, selectedBook, loading, content,
                   asOf, disabled, sportValue, bookValue, urlSport, urlBook,
                   lsSport, lsBook, lsOK, fSports, fBooks, initPc>>
    /\ UNCHANGED otherThanApp

\* The refreshBtn "click" listener: loadOdds({ refresh: true }). A disabled
\* button dispatches no click.
RefreshListener ==
    /\ ~disabled.refreshBtn
    /\ UserLoads < budget
    /\ LoadOdds("user", selectedSport, selectedBook)
    /\ UNCHANGED <<sports, books, selectedSport, selectedBook, sportValue,
                   bookValue, urlSport, urlBook, lsSport, lsBook, lsOK, fSports,
                   fBooks, initPc>>

\* The user clicks refreshBtn
RefreshClick ==
    /\ RefreshListener
    /\ UNCHANGED otherThanApp

\* sportSelect "change": the user picks another option of the enabled select
SportChange(v) ==
    /\ ~disabled.sportSelect
    /\ v \in Range(sports) /\ v # sportValue
    /\ UserLoads < budget
    /\ sportValue' = v
    /\ selectedSport' = v
    /\ SavePrefs(v, selectedBook)
    /\ UpdateURLParams(v, selectedBook)
    /\ LoadOdds("user", v, selectedBook)
    /\ UNCHANGED <<sports, books, selectedBook, bookValue, lsOK, fSports, fBooks,
                   initPc>>
    /\ UNCHANGED otherThanApp

\* bookmakerSelect "change"
BookChange(v) ==
    /\ ~disabled.bookmakerSelect
    /\ v \in Range(books) /\ v # bookValue
    /\ UserLoads < budget
    /\ bookValue' = v
    /\ selectedBook' = v
    /\ SavePrefs(selectedSport, v)
    /\ UpdateURLParams(selectedSport, v)
    /\ LoadOdds("user", selectedSport, v)
    /\ UNCHANGED <<sports, books, selectedSport, sportValue, lsOK, fSports, fBooks,
                   initPc>>
    /\ UNCHANGED otherThanApp

Keys == {"r", "R", "x"}
ToLowerCase(k) == IF k = "R" THEN "r" ELSE k

\* The keydown handler's test
IsRefreshKey(e) == ToLowerCase(e.key) = "r" /\ ~e.metaKey /\ ~e.ctrlKey /\ ~e.altKey

KeyEvents == [key : Keys, shiftKey : BOOLEAN, ctrlKey : BOOLEAN, altKey : BOOLEAN,
              metaKey : BOOLEAN]

\* The keys the user presses: each key alone or with one modifier key held
HeldKeys(e) == {m \in {"shiftKey", "ctrlKey", "altKey", "metaKey"} : e[m]}
KeyPresses == {e \in KeyEvents : Cardinality(HeldKeys(e)) <= 1}

\* No keydown observed: the log is off, or on and still empty
NoKey == [key |-> "", shiftKey |-> FALSE, ctrlKey |-> FALSE, altKey |-> FALSE,
          metaKey |-> FALSE]
KeyLogOff == [on |-> FALSE, seen |-> FALSE, e |-> NoKey, enabled |-> FALSE,
              loaded |-> FALSE]
KeyLogOn == [KeyLogOff EXCEPT !.on = TRUE]

\* document "keydown": refreshBtn.click() when the test passes. The log, when
\* it is on, keeps the event, whether refreshBtn was enabled, and whether an
\* odds load was issued.
KeyDown(e) ==
    /\ IF IsRefreshKey(e) /\ ~disabled.refreshBtn
       THEN RefreshListener
       ELSE UNCHANGED appVars
    /\ keyLog' = IF keyLog.on
                 THEN [on |-> TRUE, seen |-> TRUE, e |-> e,
                       enabled |-> ~disabled.refreshBtn,
                       loaded |-> Len(loads') > Len(loads)]
                 ELSE keyLog
    /\ UNCHANGED <<fetchVars, chipVars, cacheVars, cellVars, budget, reloads, before>>

\* Page reloads in one run
MaxReloads == 1
\* User-triggered odds loads in a run that goes through a reload
MaxTripLoads == 2

NoSession == [sports |-> <<>>, books |-> <<>>, sport |-> Null, book |-> Null]

\* The run starts with its first page session
RunInit(n, log) ==
    /\ budget = n
    /\ reloads = 0
    /\ before = NoSession
    /\ keyLog = log

\* What a session leaves to look back at: its lists and its selection when
\* the page URL carried that selection, nothing otherwise
Snapshot ==
    IF /\ Truthy(selectedSport) /\ urlSport = selectedSport
       /\ Truthy(selectedBook) /\ urlBook = selectedBook
    THEN [sports |-> sports, books |-> books, sport |-> selectedSport,
          book |-> selectedBook]
    ELSE NoSession

\* The user reloads the page (or opens the address-bar URL again): the script
\* runs from the top, AppState is the literal of its declaration, the pending
\* requests of the old page are gone; window.location and localStorage stay.
\* The new session is left to itself.
Reload ==
    /\ reloads < MaxReloads
    /\ reloads' = reloads + 1
    /\ budget' = 0
    /\ before' = Snapshot
    /\ sports' = <<>> /\ books' = <<>>
    /\ selectedSport' = Null /\ selectedBook' = Null
    /\ loading' = FALSE
    /\ content' = Blank
    /\ asOf' = AsOfBlank
    /\ disabled' = AllDisabled(FALSE)
    /\ sportValue' = "" /\ bookValue' = ""
    /\ fSports' = FetchStart /\ fBooks' = FetchStart
    /\ loads' = <<>>
    /\ initPc' = "meta"
    /\ UNCHANGED <<urlSport, urlBook, lsSport, lsBook, lsOK, keyLog>>
    /\ UNCHANGED <<fetchVars, chipVars, cacheVars, cellVars>>

(***************************************************************************)
(* The date-chip controller (src/unnamed/part_000)                         *)
(***************************************************************************)
\* buildDateChips(): for (let i = 0; i < 6; i++)
NumChips == 6
\* User-triggered odds loads in one page session
MaxChipLoads == 1

CBlank == [kind |-> "blank", sport |-> Null, book |-> Null, day |-> 0]
\* <div class="badge">Loading...</div>
CLoading == [kind |-> "loading", sport |-> Null, book |-> Null, day |-> 0]
\* <div class="badge">Error: ...</div>
CError == [kind |-> "error", sport |-> Null, book |-> Null, day |-> 0]
\* <div class="badge">No games found for selected day.</div>
CEmpty == [kind |-> "empty", sport |-> Null, book |-> Null, day |-> 0]
\* games.map(renderCard) of the payload answering (sport, book, day)
CCards(l) == [kind |-> "games", sport |-> l.sport, book |-> l.book, day |-> l.day]

ChipInit ==
    /\ cSportOptions = <<>> /\ cBookOptions = <<>>
    /\ cSportValue = "" /\ cBookValue = ""
    /\ currentDayOffset = 0
    /\ cards = CBlank
    /\ asOfText = AsOfBlank
    /\ loadBtnBound = FALSE
    /\ cLoads = <<>>
    /\ cPc = "hydrateSports"

\* The value of a select after its options were replaced and
\* `if (data.default) select.value = data.default` ran
HydratedValue(options, default) ==
    IF Truthy(default)
    THEN (IF default \in Range(options) THEN default ELSE "")
    ELSE (IF Len(options) > 0 THEN options[1] ELSE "")

\* loadOdds() of part_000 up to its await
CLoadOdds(by, sport, book, day) ==
    /\ cards' = CLoading
    /\ cLoads' = Append(cLoads, [by |-> by, sport |-> sport, book |-> book,
                                 day |-> day, st |-> "pending"])

CUserLoads == Cardinality({i \in 1..Len(cLoads) : cLoads[i].by # "init"})

\* hydrateSports(): r = await fetch("/sports"); data = await r.json(); r.ok is
\* not looked at, a rejection leaves init() through no handler
HydrateSports(outcome, list, default) ==
    /\ cPc = "hydrateSports"
    /\ IF outcome \in {"net", "parse"}
       THEN /\ cPc' = "rejected"
            /\ UNCHANGED <<cSportOptions, cSportValue>>
       ELSE LET options == IF outcome = "ok" THEN list ELSE <<>>
                dflt == IF outcome = "ok" THEN default ELSE Null
            IN /\ cSportOptions' = options
               /\ cSportValue' = HydratedValue(options, dflt)
               /\ cPc' = "hydrateBookmakers"
    /\ UNCHANGED <<cBookOptions, cBookValue, currentDayOffset, cards, asOfText,
                   loadBtnBound, cLoads>>
    /\ UNCHANGED otherThanChips

\* hydrateBookmakers(), then loadBtn.addEventListener and await loadOdds()
HydrateBookmakers(outcome, list, default) ==
    /\ cPc = "hydrateBookmakers"
    /\ IF outcome \in {"net", "parse"}
       THEN /\ cPc' = "rejected"
            /\ UNCHANGED <<cBookOptions, cBookValue, loadBtnBound, cards, cLoads>>
       ELSE LET options == IF outcome = "ok" THEN list ELSE <<>>
                dflt == IF outcome = "ok" THEN default ELSE Null
            IN /\ cBookOptions' = options
               /\ cBookValue' = HydratedValue(options, dflt)
               /\ loadBtnBound' = TRUE
               /\ CLoadOdds("init", cSportValue, HydratedValue(options, dflt),
                            currentDayOffset)
               /\ cPc' = "loadOdds"
    /\ UNCHANGED <<cSportOptions, cSportValue, currentDayOffset, asOfText>>
    /\ UNCHANGED otherThanChips

\* loadOdds() of part_000 from its await on
CLoadOddsDone(i, outcome, n) ==
    /\ i \in 1..Len(cLoads)
    /\ cLoads[i].st = "pending"
    /\ IF outcome = "ok"
       THEN /\ asOfText' = AsOfLine(cLoads[i].book)
            /\ cards' = (IF n = 0 THEN CEmpty ELSE CCards(cLoads[i]))
            /\ cLoads' = [cLoads EXCEPT ![i].st = "rendered"]
       ELSE /\ cards' = CError
            /\ cLoads' = [cLoads EXCEPT ![i].st = "errored"]
            /\ UNCHANGED asOfText
    /\ cPc' = (IF cLoads[i].by = "init" THEN "done" ELSE cPc)
    /\ UNCHANGED <<cSportOptions, cBookOptions, cSportValue, cBookValue,
                   currentDayOffset, loadBtnBound>>
    /\ UNCHANGED otherThanChips

\* A chip's click listener
ChipClick(i) ==
    /\ CUserLoads < MaxChipLoads
    /\ currentDayOffset' = i
    /\ CLoadOdds("user", cSportValue, cBookValue, i)
    /\ UNCHANGED <<cSportOptions, cBookOptions, cSportValue, cBookValue, asOfText,
                   loadBtnBound, cPc>>
    /\ UNCHANGED otherThanChips

\* loadBtn "click"
LoadBtnClick ==
    /\ loadBtnBound
    /\ CUserLoads < MaxChipLoads
    /\ CLoadOdds("user", cSportValue, cBookValue, currentDayOffset)
    /\ UNCHANGED <<cSportOptions, cBookOptions, cSportValue, cBookValue,
                   currentDayOffset, asOfText, loadBtnBound, cPc>>
    /\ UNCHANGED otherThanChips

\* The user picks another option; part_000 listens to neither select
CSportPick(v) ==
    /\ v \in Range(cSportOptions) /\ v # cSportValue
    /\ cSportValue' = v
    /\ UNCHANGED <<cSportOptions, cBookOptions, cBookValue, currentDayOffset,
                   cards, asOfText, loadBtnBound, cLoads, cPc>>
    /\ UNCHANGED otherThanChips

CBookPick(v) ==
    /\ v \in Range(cBookOptions) /\ v # cBookValue
    /\ cBookValue' = v
    /\ UNCHANGED <<cSportOptions, cBookOptions, cSportValue, currentDayOffset,
                   cards, asOfText, loadBtnBound, cLoads, cPc>>
    /\ UNCHANGED otherThanChips



(***************************************************************************)
(* The caching controller (src/unnamed/part_001)                           *)
(***************************************************************************)
\* buildDayScroller(12): today + 11 more days. A local date key is written
\* here as its distance in days from today.
NumDays == 12
\* Games of one odds response
MaxCacheGames == 2
\* The latest day a game of a response starts on
MaxGameDay == 1
\* Odds requests in one page session
MaxCacheLoads == 2

\* What json.results can be: games in the order sent, each with the local
\* date key of its commence_time (localDateKeyFromISO)
Results ==
    UNION {[1..n -> [id : 1..MaxCacheGames, day : 0..MaxGameDay]] : n \in 0..MaxCacheGames}
Payloads == {r \in Results : \A i \in 1..Len(r) : r[i].id = i}

\* setStatus(msg): the message, and the count and day it quotes
Status(msg) == [msg |-> msg, n |-> 0, key |-> 0]
Showing(n, key) == [msg |-> "Showing n games for key", n |-> n, key |-> key]

\* setMeta(msg)
MetaBlank == [line |-> FALSE, games |-> 0]
MetaLine(n) == [line |-> TRUE, games |-> n]

\* The bookmaker select offers presets and "custom"
BookChoices == {"draftkings", "custom"}
CustomInputs == {"", "betonlineag"}

\* fetchJSON(url) of part_001: anything but a parsed body of an ok response
\* throws
PFetchOk(outcome) == outcome = "ok"

\* renderGamesForSelectedDay(), run with the cache, the day key and the meta
\* line of the moment it is called
RenderGamesForSelectedDay(cache, key, meta) ==
    LET filtered == SelectSeq(cache, LAMBDA g : g.day = key) IN
    IF Len(cache) = 0
    THEN /\ gamesEl' = <<>>
         /\ statusBox' = Status("No games loaded yet.")
         /\ metaBox' = meta
    ELSE IF Len(filtered) = 0
    THEN /\ gamesEl' = <<>>
         /\ statusBox' = Status("No games for that day (try another day or bookmaker).")
         /\ metaBox' = MetaBlank
    ELSE /\ statusBox' = Showing(Len(filtered), key)
         /\ gamesEl' = filtered
         /\ metaBox' = meta

\* DOMContentLoaded has run: initSports() is at its await, buildDayScroller(12)
\* has built the pills and selected today
CacheInit ==
    /\ selectedDateKey = 0
    /\ lastLoadedGames = <<>>
    /\ gamesEl = <<>>
    /\ statusBox = Status("Loading sports...")
    /\ metaBox = MetaBlank
    /\ pSportOptions = <<>>
    /\ pSportValue = ""
    /\ pBookValue = "draftkings"
    /\ customBookInput = ""
    /\ pLoads = <<>>
    /\ pSportsPc = "fetching"

\* initSports() after its await
InitSports(outcome, list) ==
    /\ pSportsPc = "fetching"
    /\ pSportsPc' = "done"
    /\ IF PFetchOk(outcome)
       THEN /\ pSportOptions' = list
            /\ pSportValue' = (IF Len(list) > 0 THEN list[1] ELSE "")
            /\ statusBox' = Status("Pick a sport and click Load Odds")
       ELSE /\ pSportOptions' = <<"">>
            /\ pSportValue' = ""
            /\ statusBox' = Status("Failed to load sports")
    /\ UNCHANGED <<selectedDateKey, lastLoadedGames, gamesEl, metaBox, pBookValue,
                   customBookInput, pLoads>>
    /\ UNCHANGED otherThanCache

\* setSelectedDay(key)
SetSelectedDay(key) == selectedDateKey' = key

\* A day pill's "click": setSelectedDay(key); renderGamesForSelectedDay()
DayPillClick(key) ==
    /\ SetSelectedDay(key)
    /\ RenderGamesForSelectedDay(lastLoadedGames, key, metaBox)
    /\ UNCHANGED <<lastLoadedGames, pSportOptions, pSportValue, pBookValue,
                   customBookInput, pLoads, pSportsPc>>
    /\ UNCHANGED otherThanCache

\* The bookmaker loadOdds() asks for: the preset, or the trimmed custom text
PBookmaker == IF pBookValue = "custom" THEN customBookInput ELSE pBookValue

\* refreshBtn "click": loadOdds() up to its await
PLoadOdds ==
    /\ Len(pLoads) < MaxCacheLoads
    /\ IF pBookValue = "custom" /\ customBookInput = ""
       THEN /\ statusBox' = Status("Enter a custom bookmaker or choose a preset.")
            /\ UNCHANGED <<gamesEl, metaBox, pLoads>>
       ELSE IF pSportValue = ""
       THEN /\ statusBox' = Status("Pick a sport first.")
            /\ UNCHANGED <<gamesEl, metaBox, pLoads>>
       ELSE /\ gamesEl' = <<>>
            /\ statusBox' = Status("Loading sport from bookmaker...")
            /\ metaBox' = MetaBlank
            /\ pLoads' = Append(pLoads, [sport |-> pSportValue, book |-> PBookmaker,
                                         st |-> "pending"])
    /\ UNCHANGED <<selectedDateKey, lastLoadedGames, pSportOptions, pSportValue,
                   pBookValue, customBookInput, pSportsPc>>
    /\ UNCHANGED otherThanCache

\* loadOdds() after its await
PLoadOddsDone(i, outcome, results) ==
    /\ pLoads[i].st = "pending"
    /\ IF PFetchOk(outcome)
       THEN /\ pLoads' = [pLoads EXCEPT ![i].st = "ok"]
            /\ lastLoadedGames' = results
            /\ IF Len(results) = 0
               THEN /\ metaBox' = MetaLine(0)
                    /\ statusBox' = Status("No games/lines returned.")
                    /\ UNCHANGED gamesEl
               ELSE RenderGamesForSelectedDay(results, selectedDateKey,
                                              MetaLine(Len(results)))
       ELSE /\ pLoads' = [pLoads EXCEPT ![i].st = "failed"]
            /\ statusBox' = Status("Failed to load odds")
            /\ UNCHANGED <<lastLoadedGames, gamesEl, metaBox>>
    /\ UNCHANGED <<selectedDateKey, pSportOptions, pSportValue, pBookValue,
                   customBookInput, pSportsPc>>
    /\ UNCHANGED otherThanCache

\* The user picks another sport: no listener
PSportPick(v) ==
    /\ v \in Range(pSportOptions) /\ v # pSportValue
    /\ pSportValue' = v
    /\ UNCHANGED <<selectedDateKey, lastLoadedGames, gamesEl, statusBox, metaBox,
                   pSportOptions, pBookValue, customBookInput, pLoads, pSportsPc>>
    /\ UNCHANGED otherThanCache

\* bookmakerSelect "change": the listener only shows or hides the custom input
PBookPick(v) ==
    /\ v # pBookValue
    /\ pBookValue' = v
    /\ UNCHANGED <<selectedDateKey, lastLoadedGames, gamesEl, statusBox, metaBox,
                   pSportOptions, pSportValue, customBookInput, pLoads, pSportsPc>>
    /\ UNCHANGED otherThanCache

\* The user types into the custom input, shown while "custom" is selected
CustomType(v) ==
    /\ pBookValue = "custom"
    /\ v # customBookInput
    /\ customBookInput' = v
    /\ UNCHANGED <<selectedDateKey, lastLoadedGames, gamesEl, statusBox, metaBox,
                   pSportOptions, pSportValue, pBookValue, pLoads, pSportsPc>>
    /\ UNCHANGED otherThanCache

(***************************************************************************)
(* The moneyline price cell                                                *)
(***************************************************************************)
\* The largest price of a row, either sign
MaxPrice == 120

\* row.live_price: a number, null, or undefined when the field is absent
Number(n) == [t |-> "number", v |-> n]
JsNull == [t |-> "null", v |-> 0]
Undefined == [t |-> "undefined", v |-> 0]
Prices == {Number(n) : n \in (0 - MaxPrice)..MaxPrice} \cup {JsNull, Undefined}

\* The placeholders the renderers write: U+2014 and U+002D
EmDash == "<em dash>"
Hyphen == "-"

\* String(v) and `${v}` of a number: its decimal digits, "-" first when it
\* is negative
JsString(p) == ToString(p.v)

\* v === null || v === undefined, v == null, and the left side of ??
Nullish(p) == p.t \in {"null", "undefined"}

\* renderMoneylineRows of app.js, the Live cell: ${r.live_price ?? "-"}
AppLiveCell(p) == IF Nullish(p) THEN Hyphen ELSE JsString(p)

\* fmt(v) of part_000
Fmt(p) == IF Nullish(p) THEN EmDash ELSE JsString(p)

\* renderCard of part_000, the Live cell of mlRows: fmt(row.live_price)
ChipLiveCell(p) == Fmt(p)

\* fmtAmerican(v) of part_001
FmtAmerican(p) ==
    IF Nullish(p) THEN Hyphen
    ELSE IF p.v > 0 THEN "+" \o JsString(p) ELSE JsString(p)

\* renderGameHTML of part_001, the live column of a moneyline row
CacheLiveCell(p) == FmtAmerican(p)

\* A row arrives in a payload; nothing is rendered yet
CellInit(p) ==
    /\ livePrice = p
    /\ liveCell = ""
    /\ renderedBy = "none"

RenderMoneylineRows ==
    /\ renderedBy = "none"
    /\ liveCell' = AppLiveCell(livePrice)
    /\ renderedBy' = "app.js"
    /\ UNCHANGED livePrice
    /\ UNCHANGED otherThanCells

RenderCard ==
    /\ renderedBy = "none"
    /\ liveCell' = ChipLiveCell(livePrice)
    /\ renderedBy' = "part_000"
    /\ UNCHANGED livePrice
    /\ UNCHANGED otherThanCells

RenderGameHTML ==
    /\ renderedBy = "none"
    /\ liveCell' = CacheLiveCell(livePrice)
    /\ renderedBy' = "part_001"
    /\ UNCHANGED livePrice
    /\ UNCHANGED otherThanCells

\* While one part is observed, the others rest in their state at page load
CellParked == CellInit(JsNull)
AppParked == AppInit(Null, Null, Null, Null, TRUE)

\* What a URL parameter or a storage key can hold: nothing, "", a key
UrlInputs(keys) == {Null, ""} \cup keys

\* A page session of the retrying controller starts from a plain or a shared
\* link, with an empty, a filled or an unreadable store
AppEnvs ==
    {[qsS |-> Null, qsB |-> Null], [qsS |-> "basketball_wnba", qsB |-> "draftkings"]}
    \X {[lsS |-> Null, lsB |-> Null, ok |-> TRUE],
        [lsS |-> "baseball_mlb", lsB |-> "betonlineag", ok |-> TRUE],
        [lsS |-> Null, lsB |-> Null, ok |-> FALSE]}

RunParked == RunInit(MaxUserLoads, KeyLogOff)

InitFetch == FetchInit /\ AppParked /\ ChipInit /\ RunParked /\ CacheInit /\ CellParked

FetchNext ==
    \/ \E url \in Urls : FjCall(url)
    \/ \E outcome \in Outcomes, body \in Bodies : FjAttempt(outcome, body)
    \/ FjWake

\* One fetchJSON call under every sequence of attempt outcomes
SpecFetch == InitFetch /\ [][FetchNext]_vars

InitApp ==
    /\ \E e \in AppEnvs : AppInit(e[1].qsS, e[1].qsB, e[2].lsS, e[2].lsB, e[2].ok)
    /\ FetchInit /\ ChipInit /\ RunParked /\ CacheInit /\ CellParked

AppNext ==
    \/ \E o \in Outcomes, l \in ListsOver(SportKeys) : LoadSportsStep(o, l)
    \/ LoadSportsWake
    \/ \E o \in Outcomes, l \in ListsOver(BookKeys) : LoadBookmakersStep(o, l)
    \/ LoadBookmakersWake
    \/ \E i \in 1..Len(loads), o \in Outcomes, n \in 0..MaxGames : LoadOddsStep(i, o, n)
    \/ \E i \in 1..Len(loads) : LoadOddsWake(i)
    \/ RefreshClick
    \/ \E v \in SportKeys : SportChange(v)
    \/ \E v \in BookKeys : BookChange(v)
    \/ \E e \in KeyPresses : KeyDown(e)

\* A page session of the retrying controller
SpecApp == InitApp /\ [][AppNext]_vars

InitRestore ==
    /\ \E qsS \in UrlInputs(SportKeys), qsB \in UrlInputs(BookKeys),
          lsS \in UrlInputs(SportKeys), lsB \in UrlInputs(BookKeys), ok \in BOOLEAN :
            AppInit(qsS, qsB, lsS, lsB, ok)
    /\ FetchInit /\ ChipInit /\ RunParked /\ CacheInit /\ CellParked

RestoreNext ==
    \/ \E o \in Outcomes, l \in ListsOver(SportKeys) : LoadSportsStep(o, l)
    \/ LoadSportsWake
    \/ \E o \in Outcomes, l \in ListsOver(BookKeys) : LoadBookmakersStep(o, l)
    \/ LoadBookmakersWake

\* init() of the retrying controller alone, from every URL and every store,
\* up to its first odds request
SpecRestore == InitRestore /\ [][RestoreNext]_vars

InitChips == ChipInit /\ FetchInit /\ AppParked /\ RunParked /\ CacheInit /\ CellParked

ChipNext ==
    \/ \E o \in Outcomes, l \in ListsOver(SportKeys), d \in {Null} \cup SportKeys :
          HydrateSports(o, l, d)
    \/ \E o \in Outcomes, l \in ListsOver(BookKeys), d \in {Null} \cup BookKeys :
          HydrateBookmakers(o, l, d)
    \/ \E i \in 1..Len(cLoads), o \in Outcomes, n \in 0..MaxGames : CLoadOddsDone(i, o, n)
    \/ \E i \in 0..(NumChips - 1) : ChipClick(i)
    \/ LoadBtnClick
    \/ \E v \in SportKeys : CSportPick(v)
    \/ \E v \in BookKeys : CBookPick(v)

\* A page session of the date-chip controller
SpecChips == InitChips /\ [][ChipNext]_vars

InitCache == CacheInit /\ FetchInit /\ AppParked /\ ChipInit /\ RunParked /\ CellParked

CacheNext ==
    \/ \E o \in Outcomes, l \in ListsOver(SportKeys) : InitSports(o, l)
    \/ \E key \in 0..(NumDays - 1) : DayPillClick(key)
    \/ PLoadOdds
    \/ \E i \in 1..Len(pLoads), o \in Outcomes, r \in Payloads : PLoadOddsDone(i, o, r)
    \/ \E v \in SportKeys : PSportPick(v)
    \/ \E v \in BookChoices : PBookPick(v)
    \/ \E v \in CustomInputs : CustomType(v)

\* A page session of the caching controller
SpecCache == InitCache /\ [][CacheNext]_vars

InitKeys ==
    /\ AppInit(Null, Null, Null, Null, TRUE)
    /\ FetchInit /\ ChipInit /\ RunInit(MaxUserLoads, KeyLogOn) /\ CacheInit /\ CellParked

\* A page session of the retrying controller with its keydown events logged
SpecKeys == InitKeys /\ [][AppNext]_vars

InitCells ==
    /\ \E p \in Prices : CellInit(p)
    /\ FetchInit /\ AppParked /\ ChipInit /\ RunParked /\ CacheInit

CellsNext ==
    \/ RenderMoneylineRows
    \/ RenderCard
    \/ RenderGameHTML

\* One moneyline row under each renderer, for every price
SpecCells == InitCells /\ [][CellsNext]_vars

\* A run through a reload starts from a plain link, with an empty, a filled
\* or an unreadable store
TripEnvs ==
    {[lsS |-> Null, lsB |-> Null, ok |-> TRUE],
     [lsS |-> "baseball_mlb", lsB |-> "betonlineag", ok |-> TRUE],
     [lsS |-> Null, lsB |-> Null, ok |-> FALSE]}

InitTrip ==
    /\ \E e \in TripEnvs : AppInit(Null, Null, e.lsS, e.lsB, e.ok)
    /\ FetchInit /\ ChipInit /\ RunInit(MaxTripLoads, KeyLogOff) /\ CacheInit /\ CellParked

\* The user of such a run changes the selects; a refresh, by its button or by
\* its key, touches neither the selection nor the URL
TripNext ==
    \/ \E o \in Outcomes, l \in ListsOver(SportKeys) : LoadSportsStep(o, l)
    \/ LoadSportsWake
    \/ \E o \in Outcomes, l \in ListsOver(BookKeys) : LoadBookmakersStep(o, l)
    \/ LoadBookmakersWake
    \/ \E i \in 1..Len(loads), o \in Outcomes, n \in 0..MaxGames : LoadOddsStep(i, o, n)
    \/ \E i \in 1..Len(loads) : LoadOddsWake(i)
    \/ \E v \in SportKeys : SportChange(v)
    \/ \E v \in BookKeys : BookChange(v)
    \/ Reload

\* Page sessions of the retrying controller, one after the other in the same
\* browser tab
SpecTrip == InitTrip /\ [][TripNext]_vars

(***************************************************************************)
(* Properties                                                              *)
(***************************************************************************)
Last(q) == q[Len(q)]

\* C1: when the first k underlying fetch attempts of a fetchJSON call fail and
\* attempt k+1 succeeds (k = 0, 1, 2), the call resolves with the body of that
\* attempt and the underlying fetch has been called exactly k+1 times.
C1_RetryLadder ==
    \A k \in 0..(Len(BACKOFF_MS) - 1) :
        ( /\ Len(fjHist) = k + 1
          /\ \A i \in 1..k : fjHist[i] \in Failures
          /\ fjHist[k + 1] = "ok" )
        => /\ fj.st = "resolved"
           /\ fjVal = fjBody
           /\ fjCalls = k + 1

\* Two failures, then a success: resolved after exactly three calls
C1_Witness ==
    /\ fj.st = "resolved"
    /\ fjHist = <<"net", "http5xx", "ok">>
    /\ fjCalls = 3
    /\ fjVal = 2

\* C2: an odds load never has more underlying fetch calls than the backoff
\* table has entries; the attempt made with the last entry settles the call;
\* and in the step in which an odds load's fetchJSON rejects, the content area
\* shows the error and the refresh button is enabled again.
C2_BoundedRetry ==
    [][\A i \in 1..Len(loads') :
          /\ loads'[i].f.calls <= Len(BACKOFF_MS)
          /\ i <= Len(loads) =>
                /\ ( /\ loads[i].f.st = "fetching"
                     /\ loads[i].f.calls = Len(BACKOFF_MS)
                     /\ loads'[i] # loads[i] )
                   => ~InFlight(loads'[i])
                /\ (InFlight(loads[i]) /\ loads'[i].f.st = "rejected")
                   => /\ content'.kind = "error"
                      /\ ~disabled'.refreshBtn]_vars

\* An odds load was rejected: the error is shown, the refresh button is enabled
C2_Witness ==
    /\ loads # <<>>
    /\ Last(loads).f.st = "rejected"
    /\ content = ErrorBox
    /\ ~disabled.refreshBtn
    /\ ~loading

\* C3: while attempts remain, a failed attempt of fetchJSON is followed by
\* another attempt, whatever the kind of the failure (transport, non-2xx
\* status, unparsable body).
C3_RetryAnyKind ==
    ( /\ fjHist # <<>>
      /\ Last(fjHist) \in Failures
      /\ Len(fjHist) < Len(BACKOFF_MS) )
    => fj.st \in {"sleeping", "fetching"}

\* part_000 never assigns .disabled of its selects or of loadBtn
CDisabled == AllDisabled(FALSE)

CPending == {i \in 1..Len(cLoads) : cLoads[i].st = "pending"}

\* C4: at most one odds request is in flight at any moment, and the sport
\* select, the bookmaker select and the refresh button are disabled while one
\* is in flight.
C4_SingleFlight ==
    /\ Cardinality(CPending) <= 1
    /\ CPending # {} => CDisabled = AllDisabled(TRUE)

\* C5: once every odds request has resolved, the games displayed are those of
\* the request issued last, in whatever order the responses arrived.
C5_LatestWins ==
    (cLoads # <<>> /\ CPending = {} /\ cards.kind = "games")
    => cards = CCards(Last(cLoads))

AppPending == {i \in 1..Len(loads) : InFlight(loads[i])}

\* C6: after an odds load has left Loading (none is in flight any more), the
\* content area shows the games, the empty notice or the error, the loading
\* flag is false, the controls are enabled, and neither the content area nor
\* the as-of label shows the loading indicator.
C6_LeavesLoading ==
    (loads # <<>> /\ AppPending = {})
    => /\ content.kind \in {"games", "empty", "error"}
       /\ ~loading
       /\ disabled = AllDisabled(FALSE)
       /\ asOf # AsOfLoading

\* C7: a failed request cycle (sport list, bookmaker list, odds) ends with the
\* error message in the games area: when init() was left by a rejection, and
\* when every odds load so far failed, the games area shows the error.
C7_ErrorsSurface ==
    /\ cPc = "rejected" => cards.kind = "error"
    /\ ( /\ cLoads # <<>>
         /\ \A i \in 1..Len(cLoads) : cLoads[i].st = "errored" )
       => cards.kind = "error"

\* C8: no odds request is issued before the sport list and the bookmaker list
\* have been fetched and the selection restored, whatever the user does while
\* init() runs.
C8_ListsBeforeOdds ==
    cLoads # <<>> => cPc \in {"loadOdds", "done"}

\* The selection the restore priority asks for
Restored(list, qs, ls, readable, default) ==
    IF qs \in Range(list) THEN qs
    ELSE IF readable /\ ls \in Range(list) THEN ls
    ELSE IF list # <<>> THEN list[1]
    ELSE default

\* C9: in the step in which loadSports (loadBookmakers) succeeds, the selected
\* sport (bookmaker) becomes the URL parameter if the fetched list has it, else
\* the stored preference if the store is readable and the list has it, else
\* the first entry of the list, else the hardcoded default; and init() is not
\* thrown into its catch block by that step.
C9_RestorePriority ==
    [][ /\ (fSports.st # "resolved" /\ fSports'.st = "resolved")
           => /\ selectedSport' =
                    Restored(sports', urlSport, lsSport, lsOK, DEFAULT_SPORT)
              /\ initPc' = "failed" => initPc = "failed"
        /\ (fBooks.st # "resolved" /\ fBooks'.st = "resolved")
           => /\ selectedBook' =
                    Restored(books', urlBook, lsBook, lsOK, DEFAULT_BOOK)
              /\ initPc' = "failed" => initPc = "failed" ]_vars

\* An empty URL parameter falls through to the stored preference, which wins
\* over the first entry; the unreadable store falls through to the first entry
C9_Witness ==
    \/ /\ fSports.st = "resolved" /\ fBooks.st = "fetching"
       /\ urlSport = "" /\ lsOK /\ lsSport = "basketball_wnba"
       /\ sports = <<"baseball_mlb", "basketball_wnba">>
       /\ selectedSport = "basketball_wnba"
    \/ /\ fBooks.st = "resolved" /\ fSports.st = "fetching"
       /\ urlBook = Null /\ ~lsOK /\ lsBook = "betonlineag"
       /\ books = <<"draftkings", "betonlineag">>
       /\ selectedBook = "draftkings"

\* The odds loads issued once both lists were there: init()'s and the later ones
AfterLists == {i \in 1..Len(loads) : \E j \in 1..i : loads[j].by = "init"}

SelectionOffered ==
    /\ selectedSport \in Range(sports)
    /\ selectedBook \in Range(books)
    /\ \A i \in AfterLists :
          loads[i].sport \in Range(sports) /\ loads[i].book \in Range(books)

\* C10 as stated: once both list fetches have succeeded, the selected sport
\* and bookmaker are offered by the fetched lists, and so are the sport and
\* bookmaker of every odds request issued from then on, for any list contents.
C10_AnyLists ==
    (fSports.st = "resolved" /\ fBooks.st = "resolved") => SelectionOffered

\* C10, amended: the same, for lists that are not empty.
C10_NonEmptyLists ==
    ( /\ fSports.st = "resolved" /\ fBooks.st = "resolved"
      /\ sports # <<>> /\ books # <<>> )
    => SelectionOffered

\* After init(), the user picked the second sport and the odds were requested
\* for it
C10_Witness ==
    /\ fSports.st = "resolved" /\ fBooks.st = "resolved"
    /\ Len(sports) = 2 /\ books # <<>>
    /\ Len(loads) = 2
    /\ loads[1].by = "init" /\ loads[2].by = "user"
    /\ selectedSport = sports[2]
    /\ loads[2].sport = sports[2] /\ loads[1].sport = sports[1]

\* A step in which the user picks another option of a select: its value
\* changes while the select's list is loaded and stays as it is
UserSportChange ==
    sportValue' # sportValue /\ fSports.st = "resolved" /\ fSports' = fSports
UserBookChange ==
    bookValue' # bookValue /\ fBooks.st = "resolved" /\ fBooks' = fBooks

\* The page URL carries the selection
UrlCarriesSelection ==
    /\ Truthy(selectedSport) /\ urlSport = selectedSport
    /\ Truthy(selectedBook) /\ urlBook = selectedBook

\* The controller, started again from the URL the last session left, has
\* both lists again, the same as before, and the user has not acted
ReinitializedFromSelection ==
    /\ reloads > 0
    /\ before # NoSession
    /\ before.sport \in Range(before.sports)
    /\ before.book \in Range(before.books)
    /\ fSports.st = "resolved" /\ fBooks.st = "resolved"
    /\ sports = before.sports /\ books = before.books
    /\ UserLoads = 0

\* C11: URL round trip. Once the user has selected a sport X and then a
\* bookmaker Y, the page URL carries sport=X and bookmaker=Y; and the
\* controller initialized again from a URL that carries the selection X, Y of
\* the session before, with the same sport and bookmaker lists and whatever
\* the store holds, ends with selected sport X and selected bookmaker Y
\* without any user interaction.
C11_UrlRoundTrip ==
    [][/\ UserSportChange => urlSport' = selectedSport' /\ selectedSport' = sportValue'
       /\ (UserBookChange /\ Truthy(selectedSport)) =>
             /\ selectedBook' = bookValue'
             /\ UrlCarriesSelection'
       /\ ReinitializedFromSelection' =>
             /\ selectedSport' = before'.sport
             /\ selectedBook' = before'.book]_vars

\* The user changed both selects away from what init() had picked, reloaded,
\* and the new session has restored both with nothing left for the user to do
C11_Witness ==
    /\ ReinitializedFromSelection
    /\ budget = 0
    /\ before.sports = <<"baseball_mlb", "basketball_wnba">>
    /\ before.books = <<"betonlineag", "draftkings">>
    /\ before.sport = "basketball_wnba" /\ before.book = "draftkings"
    /\ selectedSport = "basketball_wnba" /\ selectedBook = "draftkings"
    /\ sportValue = "basketball_wnba" /\ bookValue = "draftkings"
    /\ lsSport # "basketball_wnba" /\ lsBook # "draftkings"

\* A step in which the user clicks a day pill other than the active one
DayPillClicked == selectedDateKey' # selectedDateKey

GamesOfDay(cache, key) == SelectSeq(cache, LAMBDA g : g.day = key)

\* C12: in the caching variant a day-pill click issues an odds request if and
\* only if no cached payload exists: with a cached payload it issues none,
\* leaves the cached games as they are and shows exactly the cached games
\* whose date is the selected day; with none it requests one first.
C12_DayClickUsesCache ==
    [][DayPillClicked =>
          /\ (Len(pLoads') > Len(pLoads)) <=> (Len(lastLoadedGames) = 0)
          /\ Len(lastLoadedGames) > 0 =>
                /\ lastLoadedGames' = lastLoadedGames
                /\ gamesEl' = GamesOfDay(lastLoadedGames, selectedDateKey')]_vars

\* The last key pressed was the designated key with no modifier key held
PlainRefreshKey ==
    /\ ToLowerCase(keyLog.e.key) = "r"
    /\ ~keyLog.e.shiftKey /\ ~keyLog.e.ctrlKey /\ ~keyLog.e.altKey
    /\ ~keyLog.e.metaKey

\* C13: a key press triggers a refresh exactly when it is the designated key
\* with no modifier key held (shift, ctrl, alt or meta), and what it triggers
\* is what a click on the refresh control does in the same state: an odds
\* load when the control is enabled, nothing while it is disabled.
C13_RefreshKey ==
    keyLog.seen => (keyLog.loaded <=> (PlainRefreshKey /\ keyLog.enabled))

\* The games area shows the notice renderGames writes for a payload whose
\* games list is empty
ShowsEmptyNotice == content.msg = "No games found for your selection."

\* C14: for every successfully fetched payload with an empty games list the
\* games area shows the empty-state notice with no game card or table markup,
\* and its presentation, message and style class, is distinguishable from
\* the presentation of a failed load.
C14_EmptyIsNotError ==
    ShowsEmptyNotice =>
        /\ content.sport = Null /\ content.cls # Cards(Null, Null).cls
        /\ content.msg # ErrorBox.msg
        /\ content.cls # ErrorBox.cls

\* The American-odds sign convention: "+" before a positive price, a negative
\* price as it is, the em dash for a missing one
SignConvention(p, text) ==
    IF Nullish(p) THEN text = EmDash
    ELSE IF p.v > 0 THEN text = "+" \o ToString(p.v)
    ELSE IF p.v < 0 THEN text = ToString(p.v)
    ELSE TRUE

\* C15: moneyline cell formatting follows the American-odds sign convention
\* for every row: a positive price renders with a leading "+" (120 gives
\* "+120"), a negative price renders as it is (-110 gives "-110"), and a
\* missing price, null or absent, renders as the em-dash placeholder.
C15_SignConvention ==
    renderedBy # "none" => SignConvention(livePrice, liveCell)
====
